---- MODULE Spec2Model ----
(***************************************************************************)
(* Amazon FBA Business Planner: the metrics derivation (calculateMetrics), *)
(* the portfolio aggregation (SummaryCards), the bar data of Charts, the   *)
(* totals of ProductTable, and the catalog held by App with its storage.   *)
(*                                                                         *)
(* Specifications.  Spec: the handlers of App, each with the render and    *)
(* the save that follow.  SpecStore: the same handlers with the save       *)
(* effect and the page reload as steps of their own.  SpecCalc:            *)
(* calculateMetrics on a grid of inputs.  SpecCards: SummaryCards and the  *)
(* table totals on lists of products.                                      *)
(*                                                                         *)
(* Numbers.  A JavaScript number is modelled as an exact rational          *)
(* <<n, d>> in lowest terms with d > 0; the non-finite values are          *)
(* <<1, 0>> (Infinity), <<-1, 0>> (-Infinity) and <<0, 0>> (NaN).          *)
(* Arithmetic is real-number arithmetic: the rounding of IEEE-754 doubles  *)
(* is not modelled, so a statement checked here is a statement about the   *)
(* formulas the code evaluates, not about the last bit of a double.        *)
(***************************************************************************)
EXTENDS Integers, Sequences, FiniteSets, TLC

VARIABLES
    productInputs,  \* App: the catalog, a sequence of ProductInput records
    products,       \* App: the enriched products computed from productInputs
    kpis,           \* App: what SummaryCards computed and shows for products
    storage,        \* localStorage[STORAGE_KEY]
    clock,          \* Date.now() as last read
    ops,            \* number of handler calls so far (bounded by MaxOps)
    calcInput,      \* engine on its own: the ProductInput given to calculateMetrics
    calcResult,     \* engine on its own: the CalculatedMetrics returned
    calcBar,        \* engine on its own: the bar Charts draws for the product
    cardInputs,     \* aggregation on its own: the catalog rendered
    cardKpis,       \* aggregation on its own: what SummaryCards computed for it
    cardTotals      \* aggregation on its own: the TOTALS row of ProductTable

appVars == <<productInputs, products, kpis, storage, clock, ops>>

calcVars == <<calcInput, calcResult, calcBar>>

cardVars == <<cardInputs, cardKpis, cardTotals>>

vars == <<appVars, calcVars, cardVars>>

(***************************************************************************)
(* Number arithmetic                                                       *)
(***************************************************************************)
Abs(n) == IF n < 0 THEN -n ELSE n

Sign(n) == IF n < 0 THEN -1 ELSE IF n > 0 THEN 1 ELSE 0

RECURSIVE GCD(_, _)
GCD(a, b) == IF b = 0 THEN a ELSE GCD(b, a % b)

\* the number n/d in lowest terms; n/0 is Infinity, -Infinity or NaN
Rat(n, d) ==
    IF d = 0 THEN <<Sign(n), 0>>
    ELSE LET g == GCD(Abs(n), Abs(d))
             s == Sign(d)
         IN  <<(s * n) \div g, (s * d) \div g>>

Num(n) == <<n, 1>>

NaN == <<0, 0>>

Infinity == <<1, 0>>

IsFinite(x) == x[2] # 0

IsNaN(x) == x = NaN

Neg(x) == <<-x[1], x[2]>>

\* x + y
Plus(x, y) ==
    IF IsFinite(x) /\ IsFinite(y)
    THEN LET g == GCD(x[2], y[2])
             l == (x[2] \div g) * y[2]
         IN  Rat(x[1] * (l \div x[2]) + y[1] * (l \div y[2]), l)
    ELSE IF IsNaN(x) \/ IsNaN(y) THEN NaN
    ELSE IF IsFinite(x) THEN y
    ELSE IF IsFinite(y) THEN x
    ELSE IF x = y THEN x ELSE NaN

\* x - y
Minus(x, y) == Plus(x, Neg(y))

\* x * y
Times(x, y) ==
    IF IsFinite(x) /\ IsFinite(y)
    THEN LET g1 == GCD(Abs(x[1]), y[2])
             g2 == GCD(Abs(y[1]), x[2])
         IN  Rat((x[1] \div g1) * (y[1] \div g2), (x[2] \div g2) * (y[2] \div g1))
    ELSE IF IsNaN(x) \/ IsNaN(y) THEN NaN
    ELSE IF Sign(x[1]) * Sign(y[1]) = 0 THEN NaN
    ELSE <<Sign(x[1]) * Sign(y[1]), 0>>

\* x / y: a finite x over 0 is an infinity (NaN when x is 0 too), never an error
Over(x, y) ==
    IF IsFinite(x) /\ IsFinite(y)
    THEN IF y[1] = 0 THEN <<Sign(x[1]), 0>>
         ELSE Times(x, <<Sign(y[1]) * y[2], Abs(y[1])>>)
    ELSE IF IsNaN(x) \/ IsNaN(y) THEN NaN
    ELSE IF IsFinite(y) THEN <<Sign(x[1]) * (IF y[1] < 0 THEN -1 ELSE 1), 0>>
    ELSE IF IsFinite(x) THEN Num(0)
    ELSE NaN

\* x < y; every comparison with NaN is false
Less(x, y) ==
    IF IsNaN(x) \/ IsNaN(y) THEN FALSE
    ELSE IF IsFinite(x) /\ IsFinite(y) THEN Minus(x, y)[1] < 0
    ELSE IF IsFinite(x) THEN y[1] > 0
    ELSE IF IsFinite(y) THEN x[1] < 0
    ELSE x[1] < y[1]

\* x > y
Greater(x, y) == Less(y, x)

\* x <= y
LessEq(x, y) == Less(x, y) \/ (~IsNaN(x) /\ x = y)

(***************************************************************************)
(* calculateMetrics.  Each constant of the function body is an operator    *)
(* over the scope c it is evaluated in: the fields of input and the        *)
(* constants defined above it that it reads.                               *)
(***************************************************************************)
unitPriceInr(c) == Times(c.unitPriceUSD, c.fxRate)

\* landedCogs that leaves the packaging out
landedCogs_noPackaging(c) == Plus(c.unitPriceInr, c.shippingAndCustomsInr)

landedCogs(c) == Plus(Plus(c.unitPriceInr, c.shippingAndCustomsInr), c.packagingInr)

grossProfit(c) == Minus(c.sellingPriceInr, c.landedCogs)

grossProfitMargin(c) ==
    IF Greater(c.sellingPriceInr, Num(0))
    THEN Times(Over(c.grossProfit, c.sellingPriceInr), Num(100))
    ELSE Num(0)

\* referralFee with the threshold taken exclusive (<= 300 instead of < 300)
referralFee_inclusive(c) ==
    IF LessEq(c.sellingPriceInr, Num(300))
    THEN Num(0)
    ELSE Times(c.sellingPriceInr, Rat(105, 1000))

referralFee(c) ==
    IF Less(c.sellingPriceInr, Num(300))
    THEN Num(0)
    ELSE Times(c.sellingPriceInr, Rat(105, 1000))

\* fixedClosingFee with the 500 boundary off by one step (>= 500 instead of > 500)
fixedClosingFee_offByOne(c) ==
    IF Greater(c.sellingPriceInr, Num(1000)) THEN Num(71)
    ELSE IF ~Less(c.sellingPriceInr, Num(500)) THEN Num(26)
    ELSE Num(13)

fixedClosingFee(c) ==
    IF Greater(c.sellingPriceInr, Num(1000)) THEN Num(71)
    ELSE IF Greater(c.sellingPriceInr, Num(500)) THEN Num(26)
    ELSE Num(13)

sumFees(c) ==
    Plus(Plus(Plus(Plus(c.referralFee, c.fixedClosingFee), c.pickAndPackFee),
              c.shippingWeightFee), c.storageFee)

gstOnMktFee(c) == Times(c.sumFees, Rat(18, 100))

gstOnSale(c) == Times(c.sellingPriceInr, Rat(5, 100))

\* returnsCost on the selling price alone
returnsCost_priceOnly(c) ==
    Times(c.sellingPriceInr, Over(c.returnsRatePercent, Num(100)))

\* returnsCost on the price net of the referral fee, with the operands swapped
returnsCost_netOfPrice(c) ==
    Times(Minus(c.referralFee, c.sellingPriceInr), Over(c.returnsRatePercent, Num(100)))

returnsCost(c) ==
    Times(Plus(c.sellingPriceInr, c.referralFee), Over(c.returnsRatePercent, Num(100)))

totalMktFeesPerUnit(c) == Plus(Plus(c.sumFees, c.gstOnMktFee), c.returnsCost)

\* totalMktFeesPercent without its zero-price guard
totalMktFeesPercent_unguarded(c) ==
    Times(Over(c.totalMktFeesPerUnit, c.sellingPriceInr), Num(100))

\* totalMktFeesPercent guarded against a zero price only (!== 0 instead of > 0)
totalMktFeesPercent_nonZero(c) ==
    IF c.sellingPriceInr # Num(0)
    THEN Times(Over(c.totalMktFeesPerUnit, c.sellingPriceInr), Num(100))
    ELSE Num(0)

totalMktFeesPercent(c) ==
    IF Greater(c.sellingPriceInr, Num(0))
    THEN Times(Over(c.totalMktFeesPerUnit, c.sellingPriceInr), Num(100))
    ELSE Num(0)

monthlyRevenue(c) == Times(c.estMonthlySalesUnits, c.sellingPriceInr)

adsCostPerUnit(c) == Times(c.sellingPriceInr, Over(c.adsCostPercent, Num(100)))

\* overheadPerUnit without its zero-units guard
overheadPerUnit_unguarded(c) == Over(c.monthlyFixedCosts, c.estMonthlySalesUnits)

overheadPerUnit(c) ==
    IF Greater(c.estMonthlySalesUnits, Num(0))
    THEN Over(c.monthlyFixedCosts, c.estMonthlySalesUnits)
    ELSE Num(0)

\* totalCostPerUnit that leaves the GST on the sale out
totalCostPerUnit_noSaleTax(c) ==
    Plus(Plus(Plus(c.landedCogs, c.totalMktFeesPerUnit), c.adsCostPerUnit),
         c.overheadPerUnit)

totalCostPerUnit(c) ==
    Plus(Plus(Plus(Plus(c.landedCogs, c.totalMktFeesPerUnit), c.gstOnSale),
              c.adsCostPerUnit), c.overheadPerUnit)

realNetProfit(c) == Minus(c.sellingPriceInr, c.totalCostPerUnit)

realNetProfitMargin(c) ==
    IF Greater(c.sellingPriceInr, Num(0))
    THEN Times(Over(c.realNetProfit, c.sellingPriceInr), Num(100))
    ELSE Num(0)

totalMonthlyTakeHome(c) == Times(c.realNetProfit, c.estMonthlySalesUnits)

\* roi behind one shared guard: 0 whenever the selling price is not positive
roi_priceGuarded(c) ==
    IF Greater(c.sellingPriceInr, Num(0)) /\ Greater(c.landedCogs, Num(0))
    THEN Times(Over(c.realNetProfit, c.landedCogs), Num(100))
    ELSE Num(0)

roi(c) ==
    IF Greater(c.landedCogs, Num(0))
    THEN Times(Over(c.realNetProfit, c.landedCogs), Num(100))
    ELSE Num(0)

\* the scope of a constant: input's fields and the constants it reads
With(input, constants) == constants @@ input

\* the function body: every constant, evaluated in the scope of what it reads
calculateMetrics(input) ==
    LET c_unitPriceInr == unitPriceInr(input)
        c_landedCogs == landedCogs(With(input, [unitPriceInr |-> c_unitPriceInr]))
        c_grossProfit == grossProfit(With(input, [landedCogs |-> c_landedCogs]))
        c_grossProfitMargin ==
            grossProfitMargin(With(input, [grossProfit |-> c_grossProfit]))
        c_referralFee == referralFee(input)
        c_fixedClosingFee == fixedClosingFee(input)
        c_sumFees ==
            sumFees(With(input, [referralFee |-> c_referralFee,
                                 fixedClosingFee |-> c_fixedClosingFee]))
        c_gstOnMktFee == gstOnMktFee(With(input, [sumFees |-> c_sumFees]))
        c_gstOnSale == gstOnSale(input)
        c_returnsCost == returnsCost(With(input, [referralFee |-> c_referralFee]))
        c_totalMktFeesPerUnit ==
            totalMktFeesPerUnit(With(input, [sumFees |-> c_sumFees,
                                             gstOnMktFee |-> c_gstOnMktFee,
                                             returnsCost |-> c_returnsCost]))
        c_totalMktFeesPercent ==
            totalMktFeesPercent(With(input, [totalMktFeesPerUnit |-> c_totalMktFeesPerUnit]))
        c_monthlyRevenue == monthlyRevenue(input)
        c_adsCostPerUnit == adsCostPerUnit(input)
        c_overheadPerUnit == overheadPerUnit(input)
        c_totalCostPerUnit ==
            totalCostPerUnit(With(input, [landedCogs |-> c_landedCogs,
                                          totalMktFeesPerUnit |-> c_totalMktFeesPerUnit,
                                          gstOnSale |-> c_gstOnSale,
                                          adsCostPerUnit |-> c_adsCostPerUnit,
                                          overheadPerUnit |-> c_overheadPerUnit]))
        c_realNetProfit ==
            realNetProfit(With(input, [totalCostPerUnit |-> c_totalCostPerUnit]))
        c_realNetProfitMargin ==
            realNetProfitMargin(With(input, [realNetProfit |-> c_realNetProfit]))
        c_totalMonthlyTakeHome ==
            totalMonthlyTakeHome(With(input, [realNetProfit |-> c_realNetProfit]))
        c_roi == roi(With(input, [landedCogs |-> c_landedCogs,
                                  realNetProfit |-> c_realNetProfit]))
    IN  [unitPriceInr |-> c_unitPriceInr,
         landedCogs |-> c_landedCogs,
         grossProfit |-> c_grossProfit,
         grossProfitMargin |-> c_grossProfitMargin,
         referralFee |-> c_referralFee,
         fixedClosingFee |-> c_fixedClosingFee,
         gstOnMktFee |-> c_gstOnMktFee,
         gstOnSale |-> c_gstOnSale,
         returnsCost |-> c_returnsCost,
         totalMktFeesPerUnit |-> c_totalMktFeesPerUnit,
         totalMktFeesPercent |-> c_totalMktFeesPercent,
         monthlyRevenue |-> c_monthlyRevenue,
         adsCostPerUnit |-> c_adsCostPerUnit,
         overheadPerUnit |-> c_overheadPerUnit,
         totalCostPerUnit |-> c_totalCostPerUnit,
         realNetProfit |-> c_realNetProfit,
         realNetProfitMargin |-> c_realNetProfitMargin,
         totalMonthlyTakeHome |-> c_totalMonthlyTakeHome,
         roi |-> c_roi]

\* the names of the 19 fields of CalculatedMetrics
MetricFields ==
    {"unitPriceInr", "landedCogs", "grossProfit", "grossProfitMargin", "referralFee",
     "fixedClosingFee", "gstOnMktFee", "gstOnSale", "returnsCost", "totalMktFeesPerUnit",
     "totalMktFeesPercent", "monthlyRevenue", "adsCostPerUnit", "overheadPerUnit",
     "totalCostPerUnit", "realNetProfit", "realNetProfitMargin", "totalMonthlyTakeHome",
     "roi"}

\* the numeric fields of ProductInput
NumericFields ==
    {"unitsRequired", "unitPriceUSD", "fxRate", "shippingAndCustomsInr", "packagingInr",
     "sellingPriceInr", "pickAndPackFee", "shippingWeightFee", "storageFee",
     "returnsRatePercent", "estMonthlySalesUnits", "adsCostPercent", "monthlyFixedCosts"}

(***************************************************************************)
(* Catalog data                                                            *)
(***************************************************************************)
DEFAULT_PRODUCT_TEMPLATE ==
    [id |-> "temp", sku |-> "New Product",
     unitsRequired |-> Num(1000),
     unitPriceUSD |-> Num(1),
     fxRate |-> Num(90),
     shippingAndCustomsInr |-> Num(30),
     packagingInr |-> Num(5),
     sellingPriceInr |-> Num(500),
     pickAndPackFee |-> Num(15),
     shippingWeightFee |-> Num(65),
     storageFee |-> Num(5),
     returnsRatePercent |-> Num(7),
     estMonthlySalesUnits |-> Num(100),
     adsCostPercent |-> Num(10),
     monthlyFixedCosts |-> Num(1000)]

INITIAL_PRODUCTS ==
    << [id |-> "1", sku |-> "Penguin 20CM",
        unitsRequired |-> Num(1500),
        unitPriceUSD |-> Num(2),
        fxRate |-> Num(90),
        shippingAndCustomsInr |-> Num(29),
        packagingInr |-> Num(20),
        sellingPriceInr |-> Num(659),
        pickAndPackFee |-> Num(17),
        shippingWeightFee |-> Num(65),
        storageFee |-> Num(5),
        returnsRatePercent |-> Num(7),
        estMonthlySalesUnits |-> Num(200),
        adsCostPercent |-> Num(10),
        monthlyFixedCosts |-> Num(1000)],
       [id |-> "2", sku |-> "Elephant 20CM",
        unitsRequired |-> Num(1500),
        unitPriceUSD |-> Rat(85, 100),
        fxRate |-> Num(90),
        shippingAndCustomsInr |-> Num(29),
        packagingInr |-> Num(3),
        sellingPriceInr |-> Num(299),
        pickAndPackFee |-> Num(17),
        shippingWeightFee |-> Num(65),
        storageFee |-> Num(5),
        returnsRatePercent |-> Num(3),
        estMonthlySalesUnits |-> Num(500),
        adsCostPercent |-> Num(10),
        monthlyFixedCosts |-> Num(1000)] >>

(***************************************************************************)
(* App: the enriched product list                                          *)
(***************************************************************************)
\* { ...a, ...b }: the fields of both, b's value where both have the field
Spread(a, b) ==
    [k \in (DOMAIN a) \cup (DOMAIN b) |-> IF k \in DOMAIN b THEN b[k] ELSE a[k]]

\* Enrich that gives every product the metrics of the first one
Enrich_firstMetrics(inputs) ==
    [i \in DOMAIN inputs |-> Spread(inputs[i], calculateMetrics(inputs[1]))]

\* Enrich that charges every product the fixed costs once per product of the catalog
Enrich_pooledOverhead(inputs) ==
    [i \in DOMAIN inputs |->
        Spread(inputs[i],
               calculateMetrics([inputs[i] EXCEPT
                                    !.monthlyFixedCosts = Times(@, Num(Len(inputs)))]))]

\* productInputs.map(input => ({ ...input, ...calculateMetrics(input) }))
Enrich(inputs) ==
    [i \in DOMAIN inputs |-> Spread(inputs[i], calculateMetrics(inputs[i]))]

(***************************************************************************)
(* SummaryCards.  The sums are operators over the product list ps; each    *)
(* constant derived from them is an operator over the scope c of the       *)
(* constants it reads.                                                     *)
(***************************************************************************)
\* products.reduce((acc, p) => acc + term(p), acc), from the product at index i
\* on; terms[i] is term(products[i])
RECURSIVE reduce(_, _, _)
reduce(terms, i, acc) ==
    IF i > Len(terms) THEN acc ELSE reduce(terms, i + 1, Plus(acc, terms[i]))

totalInventoryValue(ps) ==
    reduce([i \in DOMAIN ps |-> Times(ps[i].landedCogs, ps[i].unitsRequired)], 1, Num(0))

totalInventoryRevenue(ps) ==
    reduce([i \in DOMAIN ps |-> Times(ps[i].sellingPriceInr, ps[i].unitsRequired)], 1, Num(0))

totalInventoryGrossProfit(ps) ==
    reduce([i \in DOMAIN ps |->
               Times(Minus(ps[i].sellingPriceInr, ps[i].landedCogs), ps[i].unitsRequired)],
           1, Num(0))

inventoryGrossProfitMargin(c) ==
    IF Greater(c.totalInventoryRevenue, Num(0))
    THEN Times(Over(c.totalInventoryGrossProfit, c.totalInventoryRevenue), Num(100))
    ELSE Num(0)

\* totalInventoryNetProfit over the monthly sales instead of the stock
totalInventoryNetProfit_monthly(ps) ==
    reduce([i \in DOMAIN ps |-> Times(ps[i].realNetProfit, ps[i].estMonthlySalesUnits)],
           1, Num(0))

totalInventoryNetProfit(ps) ==
    reduce([i \in DOMAIN ps |-> Times(ps[i].realNetProfit, ps[i].unitsRequired)], 1, Num(0))

inventoryNetProfitMargin(c) ==
    IF Greater(c.totalInventoryRevenue, Num(0))
    THEN Times(Over(c.totalInventoryNetProfit, c.totalInventoryRevenue), Num(100))
    ELSE Num(0)

totalMonthlyRevenue(ps) ==
    reduce([i \in DOMAIN ps |-> ps[i].monthlyRevenue], 1, Num(0))

\* totalMonthlyCOGS whose reducer drops the accumulator
totalMonthlyCOGS_noAccumulator(ps) ==
    IF ps = <<>>
    THEN Num(0)
    ELSE Times(ps[Len(ps)].landedCogs, ps[Len(ps)].estMonthlySalesUnits)

totalMonthlyCOGS(ps) ==
    reduce([i \in DOMAIN ps |-> Times(ps[i].landedCogs, ps[i].estMonthlySalesUnits)], 1, Num(0))

\* daysOfInventory left in months, not multiplied by 30
daysOfInventory_inMonths(c) ==
    IF Greater(c.totalMonthlyCOGS, Num(0))
    THEN Over(c.totalInventoryValue, c.totalMonthlyCOGS)
    ELSE Num(0)

daysOfInventory(c) ==
    IF Greater(c.totalMonthlyCOGS, Num(0))
    THEN Times(Over(c.totalInventoryValue, c.totalMonthlyCOGS), Num(30))
    ELSE Num(0)

variableCostPerUnit(p) == Plus(Plus(p.landedCogs, p.totalMktFeesPerUnit), p.gstOnSale)

\* contributionPerUnit that also takes off ads and overhead
contributionPerUnit_net(p) == Minus(p.sellingPriceInr, p.totalCostPerUnit)

contributionPerUnit(p) == Minus(p.sellingPriceInr, variableCostPerUnit(p))

totalMonthlyContribution(ps) ==
    reduce([i \in DOMAIN ps |->
               Times(contributionPerUnit(ps[i]), ps[i].estMonthlySalesUnits)],
           1, Num(0))

contributionMarginPercent(c) ==
    IF Greater(c.totalMonthlyRevenue, Num(0))
    THEN Times(Over(c.totalMonthlyContribution, c.totalMonthlyRevenue), Num(100))
    ELSE Num(0)

\* SummaryCards' own totalMonthlyTakeHome, the sum of the products'
portfolioMonthlyTakeHome(ps) ==
    reduce([i \in DOMAIN ps |-> ps[i].totalMonthlyTakeHome], 1, Num(0))

monthsToPayback(c) ==
    IF Greater(c.totalMonthlyTakeHome, Num(0))
    THEN Over(c.totalInventoryValue, c.totalMonthlyTakeHome)
    ELSE Num(0)

\* x.toFixed(0): the nearest integer, the larger one of two equally near, as text
toFixed0(x) ==
    IF IsNaN(x) THEN "NaN"
    ELSE IF ~IsFinite(x) THEN (IF x[1] < 0 THEN "-Infinity" ELSE "Infinity")
    ELSE IF x[1] < 0 THEN "-" \o ToString((2 * (-x[1]) + x[2]) \div (2 * x[2]))
    ELSE ToString((2 * x[1] + x[2]) \div (2 * x[2]))

\* paybackCard that shows N/A for an infinite payback only
paybackCard_infinityOnly(c) ==
    IF c.monthsToPayback = Infinity
    THEN "N/A"
    ELSE toFixed0(c.monthsToPayback) \o " Months"

\* paybackCard that shows N/A for a negative payback only, not for 0
paybackCard_negativeOnly(c) ==
    IF c.monthsToPayback = Infinity \/ Less(c.monthsToPayback, Num(0))
    THEN "N/A"
    ELSE toFixed0(c.monthsToPayback) \o " Months"

\* the value shown by the Inv. Recovery card
paybackCard(c) ==
    IF c.monthsToPayback = Infinity \/ LessEq(c.monthsToPayback, Num(0))
    THEN "N/A"
    ELSE toFixed0(c.monthsToPayback) \o " Months"

\* everything SummaryCards computes for a product list
SummaryCards(ps) ==
    LET c_totalInventoryValue == totalInventoryValue(ps)
        c_totalInventoryRevenue == totalInventoryRevenue(ps)
        c_totalInventoryGrossProfit == totalInventoryGrossProfit(ps)
        c_totalInventoryNetProfit == totalInventoryNetProfit(ps)
        c_totalMonthlyRevenue == totalMonthlyRevenue(ps)
        c_totalMonthlyCOGS == totalMonthlyCOGS(ps)
        c_totalMonthlyContribution == totalMonthlyContribution(ps)
        c_totalMonthlyTakeHome == portfolioMonthlyTakeHome(ps)
        c_monthsToPayback ==
            monthsToPayback([totalMonthlyTakeHome |-> c_totalMonthlyTakeHome,
                             totalInventoryValue |-> c_totalInventoryValue])
    IN  [totalInventoryValue |-> c_totalInventoryValue,
         totalInventoryRevenue |-> c_totalInventoryRevenue,
         totalInventoryGrossProfit |-> c_totalInventoryGrossProfit,
         inventoryGrossProfitMargin |->
             inventoryGrossProfitMargin(
                 [totalInventoryRevenue |-> c_totalInventoryRevenue,
                  totalInventoryGrossProfit |-> c_totalInventoryGrossProfit]),
         totalInventoryNetProfit |-> c_totalInventoryNetProfit,
         inventoryNetProfitMargin |->
             inventoryNetProfitMargin(
                 [totalInventoryRevenue |-> c_totalInventoryRevenue,
                  totalInventoryNetProfit |-> c_totalInventoryNetProfit]),
         totalMonthlyRevenue |-> c_totalMonthlyRevenue,
         totalMonthlyCOGS |-> c_totalMonthlyCOGS,
         daysOfInventory |->
             daysOfInventory([totalMonthlyCOGS |-> c_totalMonthlyCOGS,
                              totalInventoryValue |-> c_totalInventoryValue]),
         totalMonthlyContribution |-> c_totalMonthlyContribution,
         contributionMarginPercent |->
             contributionMarginPercent(
                 [totalMonthlyRevenue |-> c_totalMonthlyRevenue,
                  totalMonthlyContribution |-> c_totalMonthlyContribution]),
         totalMonthlyTakeHome |-> c_totalMonthlyTakeHome,
         monthsToPayback |-> c_monthsToPayback,
         paybackCard |-> paybackCard([monthsToPayback |-> c_monthsToPayback])]

\* the numeric results of SummaryCards
KpiFields ==
    {"totalInventoryValue", "totalInventoryRevenue", "totalInventoryGrossProfit",
     "inventoryGrossProfitMargin", "totalInventoryNetProfit", "inventoryNetProfitMargin",
     "totalMonthlyRevenue", "totalMonthlyCOGS", "daysOfInventory",
     "totalMonthlyContribution", "contributionMarginPercent", "totalMonthlyTakeHome",
     "monthsToPayback"}

(***************************************************************************)
(* Charts: the stacked bar of a product's unit economics                   *)
(***************************************************************************)
\* the segments of the bar, from the bottom
BarSegments == <<"COG & Pkg", "Mkt Fees", "GST & Tax", "Mkt & Ops", "Net Profit">>

\* variant: the fee segment keeps the tax on the fees
barData_feesWithTax(p) ==
    [key \in {"name", "sellingPrice"} \cup {BarSegments[i] : i \in DOMAIN BarSegments} |->
        CASE key = "name" -> p.sku
          [] key = "sellingPrice" -> p.sellingPriceInr
          [] key = "COG & Pkg" -> p.landedCogs
          [] key = "Mkt Fees" -> p.totalMktFeesPerUnit
          [] key = "GST & Tax" -> Plus(p.gstOnMktFee, p.gstOnSale)
          [] key = "Mkt & Ops" -> Plus(p.adsCostPerUnit, p.overheadPerUnit)
          [] key = "Net Profit" -> p.realNetProfit]

\* one entry of barData
barData(p) ==
    [key \in {"name", "sellingPrice"} \cup {BarSegments[i] : i \in DOMAIN BarSegments} |->
        CASE key = "name" -> p.sku
          [] key = "sellingPrice" -> p.sellingPriceInr
          [] key = "COG & Pkg" -> p.landedCogs
          [] key = "Mkt Fees" -> Minus(p.totalMktFeesPerUnit, p.gstOnMktFee)
          [] key = "GST & Tax" -> Plus(p.gstOnMktFee, p.gstOnSale)
          [] key = "Mkt & Ops" -> Plus(p.adsCostPerUnit, p.overheadPerUnit)
          [] key = "Net Profit" -> p.realNetProfit]

(***************************************************************************)
(* ProductTable: the TOTALS row                                            *)
(***************************************************************************)
\* variant: the take-home total counts only the products that earn money
ProductTable_profitsOnly(ps) ==
    [totalMonthlyUnits |->
        reduce([i \in DOMAIN ps |-> ps[i].estMonthlySalesUnits], 1, Num(0)),
     totalMonthlyRevenue |->
        reduce([i \in DOMAIN ps |-> ps[i].monthlyRevenue], 1, Num(0)),
     totalMonthlyFixedCosts |->
        reduce([i \in DOMAIN ps |-> ps[i].monthlyFixedCosts], 1, Num(0)),
     totalMonthlyTakeHome |->
        reduce([i \in DOMAIN ps |->
                   IF Greater(ps[i].totalMonthlyTakeHome, Num(0))
                   THEN ps[i].totalMonthlyTakeHome ELSE Num(0)], 1, Num(0))]

\* the four totals ProductTable computes from products
ProductTable(ps) ==
    [totalMonthlyUnits |->
        reduce([i \in DOMAIN ps |-> ps[i].estMonthlySalesUnits], 1, Num(0)),
     totalMonthlyRevenue |->
        reduce([i \in DOMAIN ps |-> ps[i].monthlyRevenue], 1, Num(0)),
     totalMonthlyFixedCosts |->
        reduce([i \in DOMAIN ps |-> ps[i].monthlyFixedCosts], 1, Num(0)),
     totalMonthlyTakeHome |->
        reduce([i \in DOMAIN ps |-> ps[i].totalMonthlyTakeHome], 1, Num(0))]

(***************************************************************************)
(* Bounds of the model                                                     *)
(***************************************************************************)
\* handler calls explored from the initial catalog
MaxOps == 2

\* the catalog is not grown beyond this many products
MaxProducts == 3

\* Date.now() takes the values clock..MaxClock
MaxClock == 2

\* the longest product list given to SummaryCards on its own
MaxCards == 3

(***************************************************************************)
(* App: local storage                                                      *)
(***************************************************************************)
\* localStorage.getItem(STORAGE_KEY) when nothing is stored: null
NoItem == <<>>

\* the JSON literal null where a number is expected
NullNumber == <<>>

\* JSON.stringify of a number: its digits, and null for NaN and the infinities
JSONnumber(x) == IF IsFinite(x) THEN x ELSE NullNumber

\* JSON.stringify of a catalog entry: every own field, strings as they are
JSONobject(p) ==
    [f \in DOMAIN p |-> IF f \in NumericFields THEN JSONnumber(p[f]) ELSE p[f]]

\* JSON.stringify(list): the stored item holding the text of list
JSONstringify(list) == <<[i \in DOMAIN list |-> JSONobject(list[i])]>>

\* an item whose text is not JSON: JSON.parse throws a SyntaxError
NotJson == <<[text |-> "not JSON"]>>

\* an item whose text is the JSON value null: it parses, to a value without map
JsonNull == <<[text |-> "null"]>>

Throws(item) == item[1] = NotJson

\* JSON.parse(text) of a text that parses: the value the text denotes
JSONparse(item) == item[1]

\* INITIAL_PRODUCTS.map(p => ({...p}))
CopyOfInitialProducts == [i \in DOMAIN INITIAL_PRODUCTS |-> INITIAL_PRODUCTS[i]]

\* the useState initialiser: the saved catalog, the defaults when nothing is saved
InitialCatalog(saved) ==
    IF saved # NoItem /\ ~Throws(saved) THEN JSONparse(saved) ELSE CopyOfInitialProducts

\* what an earlier session may have left in local storage
SavedItems ==
    {NoItem,
     JSONstringify(<<>>),
     JSONstringify(<<[DEFAULT_PRODUCT_TEMPLATE EXCEPT
                         !.id = "1-a", !.sku = "New Product 1",
                         !.sellingPriceInr = Num(1200)]>>)}

(***************************************************************************)
(* App: handlers.  Each handler sets productInputs; the render that        *)
(* follows recomputes products (useMemo) and the summary cards, and the    *)
(* effect saves the catalog.                                               *)
(***************************************************************************)
Commit(inputs) ==
    /\ productInputs' = inputs
    /\ products' = Enrich(inputs)
    /\ kpis' = SummaryCards(products')

Render(inputs) ==
    /\ Commit(inputs)
    /\ storage' = JSONstringify(inputs)

\* variant: the field is assigned in every entry, whatever its id
UpdateField_everyEntry(prev, id, field, value) ==
    [i \in DOMAIN prev |-> [prev[i] EXCEPT ![field] = value]]

\* prev.map(p => p.id !== id ? p : { ...p, [field]: value })
UpdateField(prev, id, field, value) ==
    [i \in DOMAIN prev |->
        IF prev[i].id # id THEN prev[i] ELSE [prev[i] EXCEPT ![field] = value]]

\* variant: the sku is numbered with the length before the append
AppendProduct_oldLength(prev, newId) ==
    Append(prev, [DEFAULT_PRODUCT_TEMPLATE EXCEPT
                     !.id = newId,
                     !.sku = "New Product " \o ToString(Len(prev))])

\* [...prev, { ...DEFAULT_PRODUCT_TEMPLATE, id: newId, sku: `New Product ${prev.length + 1}` }]
AppendProduct(prev, newId) ==
    Append(prev, [DEFAULT_PRODUCT_TEMPLATE EXCEPT
                     !.id = newId,
                     !.sku = "New Product " \o ToString(Len(prev) + 1)])

\* variant: only the first entry with the id is removed
RemoveProduct_firstOnly(prev, id) ==
    LET hits == {i \in DOMAIN prev : prev[i].id = id}
    IN  IF hits = {} THEN prev
        ELSE LET k == CHOOSE i \in hits : \A j \in hits : i <= j
             IN  SubSeq(prev, 1, k - 1) \o SubSeq(prev, k + 1, Len(prev))

\* prev.filter(p => p.id !== id)
RECURSIVE RemoveProduct(_, _)
RemoveProduct(prev, id) ==
    IF prev = <<>> THEN <<>>
    ELSE IF Head(prev).id # id
         THEN <<Head(prev)>> \o RemoveProduct(Tail(prev), id)
         ELSE RemoveProduct(Tail(prev), id)

\* Math.random().toString(36).substr(2, 9)
RandomStrings == {"a", "b"}

\* `${Date.now()}-${Math.random().toString(36).substr(2, 9)}`
NewId(now, random) == ToString(now) \o "-" \o random

\* the values an InputCell passes for a numeric field: parseFloat(text) || 0
EditedValues(field) ==
    IF field = "sellingPriceInr" THEN {Num(0), Num(500), Num(1200)}
    ELSE IF field = "unitPriceUSD" THEN {Num(0)}
    ELSE IF field = "fxRate" THEN {Num(83)}
    ELSE IF field = "shippingAndCustomsInr" THEN {Num(0)}
    ELSE IF field = "packagingInr" THEN {Num(0)}
    ELSE IF field = "unitsRequired" THEN {Num(0)}
    ELSE IF field = "estMonthlySalesUnits" THEN {Num(0)}
    ELSE IF field = "returnsRatePercent" THEN {Num(50)}
    ELSE IF field = "adsCostPercent" THEN {Num(0)}
    ELSE IF field = "monthlyFixedCosts" THEN {Num(0)}
    ELSE {Num(10)}

\* the values handleUpdate is called with for a field
UpdateValues(field) == IF field = "sku" THEN {"Renamed"} ELSE EditedValues(field)

Ids(list) == {list[i].id : i \in DOMAIN list}

Init ==
    /\ \E saved \in SavedItems :
          /\ productInputs = InitialCatalog(saved)
          /\ products = Enrich(productInputs)
          /\ kpis = SummaryCards(products)
          /\ storage = JSONstringify(productInputs)
    /\ clock = 0
    /\ ops = 0
    /\ calcInput = INITIAL_PRODUCTS[1]
    /\ calcResult = calculateMetrics(INITIAL_PRODUCTS[1])
    /\ calcBar = barData(Spread(calcInput, calcResult))
    /\ cardInputs = <<>>
    /\ cardKpis = SummaryCards(<<>>)
    /\ cardTotals = ProductTable(<<>>)

\* the ids a handler can be called with: those of the catalog and one that no
\* entry has
AbsentId == "none"

CallIds == Ids(productInputs) \cup {AbsentId}

\* handleUpdate(id, field, value), with the render and the save that follow
handleUpdate(id, field, value) ==
    /\ ops < MaxOps
    /\ Render(UpdateField(productInputs, id, field, value))
    /\ ops' = ops + 1
    /\ UNCHANGED <<clock, calcVars, cardVars>>

HandleUpdateNumber ==
    \E id \in Ids(productInputs), field \in NumericFields :
        \E value \in EditedValues(field) : handleUpdate(id, field, value)

HandleUpdateSku ==
    \E id \in CallIds : handleUpdate(id, "sku", "Renamed")

\* handleAddProduct() when Date.now() reads now and Math.random() gives random
handleAddProduct(now, random) ==
    /\ ops < MaxOps
    /\ Len(productInputs) < MaxProducts
    /\ clock' = now
    /\ Render(AppendProduct(productInputs, NewId(now, random)))
    /\ ops' = ops + 1
    /\ UNCHANGED <<calcVars, cardVars>>

HandleAddProduct ==
    \E now \in clock..MaxClock, random \in RandomStrings :
        handleAddProduct(now, random)

\* handleDelete(id), with the render and the save that follow
handleDelete(id) ==
    /\ ops < MaxOps
    /\ Render(RemoveProduct(productInputs, id))
    /\ ops' = ops + 1
    /\ UNCHANGED <<clock, calcVars, cardVars>>

HandleDelete == \E id \in CallIds : handleDelete(id)

\* variant: the defaults are the objects the catalog holds, so a default
\* product comes back with the edits made to it
HandleReset_editedDefaults ==
    /\ ops < MaxOps
    /\ Render([i \in DOMAIN INITIAL_PRODUCTS |->
                  IF INITIAL_PRODUCTS[i].id \in Ids(productInputs)
                  THEN productInputs[CHOOSE j \in DOMAIN productInputs :
                                        productInputs[j].id = INITIAL_PRODUCTS[i].id]
                  ELSE INITIAL_PRODUCTS[i]])
    /\ ops' = ops + 1
    /\ UNCHANGED <<clock, calcVars, cardVars>>

HandleReset ==
    /\ ops < MaxOps
    /\ Render(CopyOfInitialProducts)
    /\ ops' = ops + 1
    /\ UNCHANGED <<clock, calcVars, cardVars>>

Next ==
    \/ HandleUpdateNumber
    \/ HandleUpdateSku
    \/ HandleAddProduct
    \/ HandleDelete
    \/ HandleReset

Spec == Init /\ [][Next]_vars

(***************************************************************************)
(* The metrics engine on its own: calculateMetrics applied to one input    *)
(* drawn from the value grids below.                                       *)
(***************************************************************************)
\* selling prices in steps of 0.01 around the fee thresholds, 0, and one
\* negative price (the engine performs no validation)
PriceValues ==
    {Num(-100), Num(0), Rat(29999, 100), Num(300), Num(500), Rat(50001, 100),
     Num(659), Num(1000), Rat(100001, 100)}

UnitPriceValues == {Num(0), Rat(85, 100), Num(2)}

ShippingValues == {Num(0), Num(29)}

PackagingValues == {Num(0), Num(20)}

PickAndPackValues == {Num(0), Num(17)}

ReturnsRateValues == {Num(0), Num(7)}

SalesUnitsValues == {Num(0), Num(200)}

AdsPercentValues == {Num(0), Num(10)}

FixedCostValues == {Num(0), Num(1000)}

CalcInputs ==
    { [INITIAL_PRODUCTS[1] EXCEPT
          !.sellingPriceInr = s, !.unitPriceUSD = u, !.shippingAndCustomsInr = sh,
          !.packagingInr = pk, !.pickAndPackFee = pp, !.returnsRatePercent = rr,
          !.estMonthlySalesUnits = emu, !.adsCostPercent = ads, !.monthlyFixedCosts = mfc] :
      s \in PriceValues, u \in UnitPriceValues, sh \in ShippingValues,
      pk \in PackagingValues, pp \in PickAndPackValues, rr \in ReturnsRateValues,
      emu \in SalesUnitsValues, ads \in AdsPercentValues, mfc \in FixedCostValues }

\* calcResult before calculateMetrics has returned
NotCalculated == <<>>

AppIdle ==
    /\ productInputs = <<>>
    /\ products = <<>>
    /\ kpis = SummaryCards(<<>>)
    /\ storage = NoItem
    /\ clock = 0
    /\ ops = 0

CalcInit ==
    /\ AppIdle
    /\ calcInput \in CalcInputs
    /\ calcResult = NotCalculated
    /\ calcBar = NotCalculated
    /\ cardInputs = <<>>
    /\ cardKpis = SummaryCards(<<>>)
    /\ cardTotals = ProductTable(<<>>)

Calculate ==
    /\ calcResult = NotCalculated
    /\ calcResult' = calculateMetrics(calcInput)
    /\ calcBar' = barData(Spread(calcInput, calcResult'))
    /\ UNCHANGED <<calcInput, appVars, cardVars>>

SpecCalc == CalcInit /\ [][Calculate]_vars

(***************************************************************************)
(* The aggregation on its own: SummaryCards given the enriched products of *)
(* a catalog drawn from CardPool.                                          *)
(***************************************************************************)
CardPool ==
    {INITIAL_PRODUCTS[1],
     INITIAL_PRODUCTS[2],
     \* a free product
     [INITIAL_PRODUCTS[1] EXCEPT !.id = "4", !.sellingPriceInr = Num(0)],
     \* nothing sold per month
     [INITIAL_PRODUCTS[2] EXCEPT !.id = "5", !.estMonthlySalesUnits = Num(0)],
     \* a product that costs nothing to land and is not stocked
     [DEFAULT_PRODUCT_TEMPLATE EXCEPT
         !.id = "6", !.unitPriceUSD = Num(0), !.shippingAndCustomsInr = Num(0),
         !.packagingInr = Num(0), !.unitsRequired = Num(0)],
     \* a product sold at a loss
     [INITIAL_PRODUCTS[1] EXCEPT !.id = "7", !.sellingPriceInr = Num(300)]}

\* every list of at most n elements of S
ListsUpTo(S, n) == UNION {[1..k -> S] : k \in 0..n}

\* cardKpis before SummaryCards has rendered
NotRendered == <<>>

CardsInit ==
    /\ AppIdle
    /\ calcInput = INITIAL_PRODUCTS[1]
    /\ calcResult = calculateMetrics(INITIAL_PRODUCTS[1])
    /\ calcBar = barData(Spread(calcInput, calcResult))
    /\ cardInputs \in ListsUpTo(CardPool, MaxCards)
    /\ cardKpis = NotRendered
    /\ cardTotals = NotRendered

\* RenderCards that writes the metrics onto the input objects instead of copying them
RenderCards_inPlace ==
    /\ cardKpis = NotRendered
    /\ cardInputs' = Enrich(cardInputs)
    /\ cardKpis' = SummaryCards(cardInputs')
    /\ cardTotals' = ProductTable(cardInputs')
    /\ UNCHANGED <<appVars, calcVars>>

RenderCards ==
    /\ cardKpis = NotRendered
    /\ LET rendered == Enrich(cardInputs)
       IN  /\ cardKpis' = SummaryCards(rendered)
           /\ cardTotals' = ProductTable(rendered)
    /\ UNCHANGED <<cardInputs, appVars, calcVars>>

SpecCards == CardsInit /\ [][RenderCards]_vars

(***************************************************************************)
(* The App with its storage, step by step: the first render from what      *)
(* local storage holds, each handler's render, the effect that saves the   *)
(* catalog after a render, and a reload of the page.                       *)
(***************************************************************************)
\* what local storage may hold when the page is opened
StoredItems == SavedItems \cup {<<NotJson>>, <<JsonNull>>}

\* productInputs.map exists: the value is a list
HasMap(value) == value # JsonNull

\* App has rendered; it has not when the first render threw
Mounted == kpis # NotRendered

\* the effect of the last render has not run yet
Pending == Mounted /\ storage # JSONstringify(productInputs)

Saved == Mounted /\ storage = JSONstringify(productInputs)

\* the first render: the useState initialiser, then productInputs.map in the
\* products memo, which throws a TypeError when the value has no map
StoreInit ==
    /\ storage \in StoredItems
    /\ productInputs = InitialCatalog(storage)
    /\ IF HasMap(productInputs)
       THEN /\ products = Enrich(productInputs)
            /\ kpis = SummaryCards(products)
       ELSE /\ products = <<>>
            /\ kpis = NotRendered
    /\ clock = 0
    /\ ops = 0
    /\ calcInput = INITIAL_PRODUCTS[1]
    /\ calcResult = calculateMetrics(INITIAL_PRODUCTS[1])
    /\ calcBar = barData(Spread(calcInput, calcResult))
    /\ cardInputs = <<>>
    /\ cardKpis = SummaryCards(<<>>)
    /\ cardTotals = ProductTable(<<>>)

\* the fields edited in this specification: a number and the text
StoreFields == {"sellingPriceInr", "sku"}

\* a handler's state update and the render that follows; the effect of the
\* previous render has run before
CommitChange(inputs) ==
    /\ ~Pending
    /\ ops < MaxOps
    /\ Commit(inputs)
    /\ ops' = ops + 1
    /\ UNCHANGED <<storage, calcVars, cardVars>>

CommitUpdate ==
    /\ Mounted
    /\ \E id \in CallIds, field \in StoreFields :
          \E value \in UpdateValues(field) :
              CommitChange(UpdateField(productInputs, id, field, value))
    /\ UNCHANGED clock

CommitAddProduct ==
    /\ Mounted
    /\ Len(productInputs) < MaxProducts
    /\ \E now \in clock..MaxClock, random \in RandomStrings :
          /\ clock' = now
          /\ CommitChange(AppendProduct(productInputs, NewId(now, random)))

CommitDelete ==
    /\ Mounted
    /\ \E id \in CallIds : CommitChange(RemoveProduct(productInputs, id))
    /\ UNCHANGED clock

CommitReset ==
    /\ Mounted
    /\ CommitChange(CopyOfInitialProducts)
    /\ UNCHANGED clock

\* variant: the effect writes the enriched products
SaveEffect_products ==
    /\ Pending
    /\ storage' = JSONstringify(products)
    /\ UNCHANGED <<productInputs, products, kpis, clock, ops, calcVars, cardVars>>

\* useEffect(() => localStorage.setItem(STORAGE_KEY, JSON.stringify(productInputs)))
SaveEffect ==
    /\ Pending
    /\ storage' = JSONstringify(productInputs)
    /\ UNCHANGED <<productInputs, products, kpis, clock, ops, calcVars, cardVars>>

\* the page is reloaded: the state of App is gone, local storage is kept, and
\* App renders for the first time again
Reload ==
    /\ ops < MaxOps
    /\ LET initial == InitialCatalog(storage)
       IN  IF HasMap(initial)
           THEN Commit(initial)
           ELSE /\ productInputs' = initial
                /\ products' = <<>>
                /\ kpis' = NotRendered
    /\ ops' = ops + 1
    /\ UNCHANGED <<storage, clock, calcVars, cardVars>>

StoreNext ==
    \/ CommitUpdate
    \/ CommitAddProduct
    \/ CommitDelete
    \/ CommitReset
    \/ SaveEffect
    \/ Reload

SpecStore == StoreInit /\ [][StoreNext]_vars

\* the effect is run by React whenever it is due
SpecStoreFair == SpecStore /\ WF_vars(SaveEffect)

(***************************************************************************)
(* Properties of the metrics engine (checked under SpecCalc)               *)
(***************************************************************************)
Calculated == calcResult # NotCalculated

\* x > k and x <= k for a finite number x and an integer k
Above(x, k) == x[1] > k * x[2]

AtMost(x, k) == x[1] <= k * x[2]

\* C1: the fixed closing fee is 71 when p > 1000, 26 when 500 < p <= 1000 and
\* 13 when p <= 500, with exact boundaries: 500 gives 13, 500.01 gives 26,
\* 1000 gives 26 and 1000.01 gives 71.
C1_ClosingFeeTiers ==
    Calculated =>
        LET p == calcInput.sellingPriceInr
            fee == calcResult.fixedClosingFee
        IN  /\ Above(p, 1000) => fee = Num(71)
            /\ Above(p, 500) /\ AtMost(p, 1000) => fee = Num(26)
            /\ AtMost(p, 500) => fee = Num(13)
            /\ p = Num(500) => fee = Num(13)
            /\ p = Rat(50001, 100) => fee = Num(26)
            /\ p = Num(1000) => fee = Num(26)
            /\ p = Rat(100001, 100) => fee = Num(71)

\* C1 witness: the fee has been computed for 500.01, the first price above 500
C1_Witness ==
    /\ Calculated
    /\ calcInput.sellingPriceInr = Rat(50001, 100)
    /\ calcResult.fixedClosingFee = Num(26)

\* C2: the referral fee is 0 when p < 300 and p * 0.105 when p >= 300;
\* 299.99 gives 0 and 300 gives 31.5.
C2_ReferralFee ==
    Calculated =>
        LET p == calcInput.sellingPriceInr
            fee == calcResult.referralFee
        IN  /\ (p[1] < 300 * p[2]) => fee = Num(0)
            /\ (p[1] >= 300 * p[2]) => fee = Rat(21 * p[1], 200 * p[2])
            /\ p = Rat(29999, 100) => fee = Num(0)
            /\ p = Num(300) => fee = Rat(315, 10)

\* C2 witness: the fee has been computed for a price of exactly 300
C2_Witness ==
    /\ Calculated
    /\ calcInput.sellingPriceInr = Num(300)
    /\ calcResult.referralFee = Rat(63, 2)

\* C3: with sellingPriceInr = 0, whatever the other fields, grossProfitMargin,
\* totalMktFeesPercent and realNetProfitMargin are exactly 0.
C3_ZeroPriceGuard ==
    Calculated /\ calcInput.sellingPriceInr = Num(0) =>
        /\ calcResult.grossProfitMargin = Num(0)
        /\ calcResult.totalMktFeesPercent = Num(0)
        /\ calcResult.realNetProfitMargin = Num(0)

\* C3 witness: a free product whose profits and fees are not themselves 0
C3_Witness ==
    /\ Calculated
    /\ calcInput.sellingPriceInr = Num(0)
    /\ calcResult.grossProfit # Num(0)
    /\ calcResult.totalMktFeesPerUnit # Num(0)
    /\ calcResult.realNetProfit # Num(0)
    /\ calcResult.realNetProfitMargin = Num(0)

C6_ReturnsAndMarketplaceFees ==
    Calculated =>
        LET m == calcResult
            in == calcInput
            rate == Rat(in.returnsRatePercent[1], 100 * in.returnsRatePercent[2])
            fees == Plus(m.referralFee, Plus(m.fixedClosingFee, Plus(in.pickAndPackFee,
                        Plus(in.shippingWeightFee, in.storageFee))))
        IN  /\ m.returnsCost = Times(Plus(in.sellingPriceInr, m.referralFee), rate)
            /\ ~Above(in.sellingPriceInr, 299) /\ AtMost(in.sellingPriceInr, 299) =>
                   m.returnsCost = Times(in.sellingPriceInr, rate)
            /\ m.gstOnMktFee = Times(fees, Rat(18, 100))
            /\ m.totalMktFeesPerUnit = Plus(fees, Plus(Times(fees, Rat(18, 100)), m.returnsCost))

\* C6 witness: a price that carries a referral fee, with a returns rate, so that
\* the returns cost exceeds the rate applied to the price alone
C6_Witness ==
    /\ Calculated
    /\ Above(calcInput.sellingPriceInr, 299)
    /\ Above(calcInput.returnsRatePercent, 0)
    /\ Above(calcResult.referralFee, 0)
    /\ Greater(calcResult.returnsCost,
               Times(calcInput.sellingPriceInr, Over(calcInput.returnsRatePercent, Num(100))))

\* C7 as claimed: for every sellingPriceInr other than 0, negative prices
\* included, totalMktFeesPercent = totalMktFeesPerUnit / sellingPriceInr * 100 and
\* realNetProfitMargin = realNetProfit / sellingPriceInr * 100; both are 0 at 0.
C7_MarginsAnyNonZeroPrice ==
    Calculated =>
        LET m == calcResult
            s == calcInput.sellingPriceInr
        IN  IF s # Num(0)
            THEN /\ m.totalMktFeesPercent = Times(Over(m.totalMktFeesPerUnit, s), Num(100))
                 /\ m.realNetProfitMargin = Times(Over(m.realNetProfit, s), Num(100))
            ELSE /\ m.totalMktFeesPercent = Num(0)
                 /\ m.realNetProfitMargin = Num(0)

\* C7 as amended: for every sellingPriceInr above 0, totalMktFeesPercent =
\* totalMktFeesPerUnit / sellingPriceInr * 100 and realNetProfitMargin =
\* realNetProfit / sellingPriceInr * 100; both are 0 when sellingPriceInr is 0
\* or negative.
C7_MarginsPositivePrice ==
    Calculated =>
        LET m == calcResult
            s == calcInput.sellingPriceInr
        IN  IF Above(s, 0)
            THEN /\ m.totalMktFeesPercent = Times(Over(m.totalMktFeesPerUnit, s), Num(100))
                 /\ m.realNetProfitMargin = Times(Over(m.realNetProfit, s), Num(100))
            ELSE /\ m.totalMktFeesPercent = Num(0)
                 /\ m.realNetProfitMargin = Num(0)

\* C7 witness: a negative price, whose fees and profit are not 0 and whose two
\* percentages are 0
C7_Witness ==
    /\ Calculated
    /\ calcInput.sellingPriceInr[1] < 0
    /\ calcResult.totalMktFeesPerUnit # Num(0)
    /\ calcResult.realNetProfit # Num(0)
    /\ calcResult.totalMktFeesPercent = Num(0)
    /\ calcResult.realNetProfitMargin = Num(0)

\* the regression input: the first of INITIAL_PRODUCTS
RegressionInput ==
    /\ calcInput.unitPriceUSD = Num(2)
    /\ calcInput.fxRate = Num(90)
    /\ calcInput.shippingAndCustomsInr = Num(29)
    /\ calcInput.packagingInr = Num(20)
    /\ calcInput.sellingPriceInr = Num(659)
    /\ calcInput.pickAndPackFee = Num(17)
    /\ calcInput.shippingWeightFee = Num(65)
    /\ calcInput.storageFee = Num(5)
    /\ calcInput.returnsRatePercent = Num(7)
    /\ calcInput.estMonthlySalesUnits = Num(200)
    /\ calcInput.adsCostPercent = Num(10)
    /\ calcInput.monthlyFixedCosts = Num(1000)

\* C8: the regression input yields unitPriceInr = 180, landedCogs = 229,
\* referralFee = 69.195, fixedClosingFee = 26 and the realNetProfit of the chain
\* of steps 5-13: sumFees 182.195, gstOnMktFee 32.7951, gstOnSale 32.95,
\* returnsCost 50.97365, totalMktFeesPerUnit 265.96375, adsCostPerUnit 65.9,
\* overheadPerUnit 5, totalCostPerUnit 598.81375, realNetProfit 60.18625.
C8_RegressionVector ==
    Calculated /\ RegressionInput =>
        /\ calcResult.unitPriceInr = Num(180)
        /\ calcResult.landedCogs = Num(229)
        /\ calcResult.referralFee = Rat(69195, 1000)
        /\ calcResult.fixedClosingFee = Num(26)
        /\ calcResult.gstOnMktFee = Rat(327951, 10000)
        /\ calcResult.gstOnSale = Rat(3295, 100)
        /\ calcResult.returnsCost = Rat(5097365, 100000)
        /\ calcResult.totalMktFeesPerUnit = Rat(26596375, 100000)
        /\ calcResult.adsCostPerUnit = Rat(659, 10)
        /\ calcResult.overheadPerUnit = Num(5)
        /\ calcResult.totalCostPerUnit = Rat(59881375, 100000)
        /\ calcResult.realNetProfit = Rat(6018625, 100000)

\* C8 witness: calculateMetrics has returned for the regression input
C8_Witness ==
    /\ Calculated
    /\ RegressionInput
    /\ calcResult.realNetProfit = Rat(48149, 800)

(***************************************************************************)
(* Properties of the aggregation (checked under SpecCards)                 *)
(***************************************************************************)
Rendered == cardKpis # NotRendered

\* the bijections of 1..n onto itself
Orderings(n) == {f \in [1..n -> 1..n] : \A i \in 1..n : \E j \in 1..n : f[j] = i}

C10_EmptyPortfolio ==
    productInputs = <<>> =>
        /\ products = <<>>
        /\ \A f \in KpiFields \ {"monthsToPayback"} : kpis[f] = Num(0)
        /\ kpis.paybackCard = "N/A"

\* C10 witness: the catalog is empty after two handler calls (both default
\* products deleted, or the last product of a saved catalog deleted)
C10_Witness ==
    /\ productInputs = <<>>
    /\ ops = 2
    /\ storage = JSONstringify(<<>>)
    /\ kpis.paybackCard = "N/A"

\* the sum of a sequence of numbers
RECURSIVE Total(_)
Total(terms) == IF terms = <<>> THEN Num(0) ELSE Plus(Head(terms), Total(Tail(terms)))

\* the metrics of the i-th product of the rendered catalog
CardMetrics(i) == calculateMetrics(cardInputs[i])

\* the summed monthly take-home and the summed stock value of the rendered catalog
SummedTakeHome == Total([i \in DOMAIN cardInputs |-> CardMetrics(i).totalMonthlyTakeHome])

SummedInventoryValue ==
    Total([i \in DOMAIN cardInputs |->
              Times(CardMetrics(i).landedCogs, cardInputs[i].unitsRequired)])

\* C11: for every product list whose summed totalMonthlyTakeHome is zero or
\* negative, the payback period is reported as N/A, never as a number of months.
C11_PaybackSentinel ==
    Rendered /\ AtMost(SummedTakeHome, 0) => cardKpis.paybackCard = "N/A"

\* C11 witness: a stocked catalog that loses money every month has been rendered
C11_Witness ==
    /\ Rendered
    /\ cardInputs # <<>>
    /\ ~AtMost(SummedInventoryValue, 0)
    /\ ~AtMost(Neg(SummedTakeHome), 0)
    /\ cardKpis.paybackCard = "N/A"

\* C12: for every product list whose summed totalMonthlyTakeHome is positive,
\* the payback period is reported as the number totalInventoryValue /
\* totalMonthlyTakeHome, also when that number is a genuine zero: a zero-months
\* payback is shown as months, not as N/A.
C12_GenuineZeroReported ==
    Rendered /\ Above(SummedTakeHome, 0) =>
        /\ cardKpis.monthsToPayback = Over(SummedInventoryValue, SummedTakeHome)
        /\ cardKpis.paybackCard =
               toFixed0(Over(SummedInventoryValue, SummedTakeHome)) \o " Months"

\* the summed stock revenue and the summed monthly cost of goods of the rendered catalog
SummedInventoryRevenue ==
    Total([i \in DOMAIN cardInputs |->
              Times(cardInputs[i].sellingPriceInr, cardInputs[i].unitsRequired)])

SummedMonthlyCOGS ==
    Total([i \in DOMAIN cardInputs |->
              Times(CardMetrics(i).landedCogs, cardInputs[i].estMonthlySalesUnits)])

\* profit / revenue * 100, or 0 when the revenue is 0
MarginOf(profit, revenue) ==
    IF revenue = Num(0) THEN Num(0) ELSE Times(Over(profit, revenue), Num(100))

\* C13: totalInventoryValue, totalInventoryRevenue, totalInventoryGrossProfit and
\* totalInventoryNetProfit are the sums over the products of landedCogs,
\* sellingPriceInr, sellingPriceInr - landedCogs and realNetProfit times
\* unitsRequired, and each margin is its profit / totalInventoryRevenue * 100,
\* or 0 when totalInventoryRevenue is 0.
C13_InventoryTotals ==
    Rendered =>
        LET gross == Total([i \in DOMAIN cardInputs |->
                               Times(Minus(cardInputs[i].sellingPriceInr,
                                           CardMetrics(i).landedCogs),
                                     cardInputs[i].unitsRequired)])
            net == Total([i \in DOMAIN cardInputs |->
                             Times(CardMetrics(i).realNetProfit, cardInputs[i].unitsRequired)])
        IN  /\ cardKpis.totalInventoryValue = SummedInventoryValue
            /\ cardKpis.totalInventoryRevenue = SummedInventoryRevenue
            /\ cardKpis.totalInventoryGrossProfit = gross
            /\ cardKpis.totalInventoryNetProfit = net
            /\ cardKpis.inventoryGrossProfitMargin = MarginOf(gross, SummedInventoryRevenue)
            /\ cardKpis.inventoryNetProfitMargin = MarginOf(net, SummedInventoryRevenue)

\* C13 witness: two stocked products rendered, with a net margin that is not 0
C13_Witness ==
    /\ Rendered
    /\ Len(cardInputs) = 2
    /\ cardInputs[1] # cardInputs[2]
    /\ Above(cardKpis.totalInventoryRevenue, 0)
    /\ cardKpis.inventoryNetProfitMargin # Num(0)
    /\ cardKpis.inventoryGrossProfitMargin # cardKpis.inventoryNetProfitMargin

\* C14: daysOfInventory is totalInventoryValue / totalMonthlyCOGS * 30, where
\* totalMonthlyCOGS is the sum of landedCogs * estMonthlySalesUnits, and 0 when
\* totalMonthlyCOGS is 0.
C14_DaysOfInventory ==
    Rendered =>
        /\ cardKpis.totalMonthlyCOGS = SummedMonthlyCOGS
        /\ SummedMonthlyCOGS = Num(0) => cardKpis.daysOfInventory = Num(0)
        /\ SummedMonthlyCOGS # Num(0) =>
               cardKpis.daysOfInventory =
                   Times(Over(SummedInventoryValue, SummedMonthlyCOGS), Num(30))

\* C14 witness: a catalog with monthly cost of goods rendered, stock for some days
C14_Witness ==
    /\ Rendered
    /\ Len(cardInputs) >= 2
    /\ Above(SummedMonthlyCOGS, 0)
    /\ Above(cardKpis.daysOfInventory, 30)

\* the summed monthly revenue of the rendered catalog
SummedMonthlyRevenue ==
    Total([i \in DOMAIN cardInputs |->
              Times(cardInputs[i].sellingPriceInr, cardInputs[i].estMonthlySalesUnits)])

\* the rendered catalog with the ads percentage and the fixed costs of product i changed
WithAdsAndFixedCosts(i, ads, fixed) ==
    [cardInputs EXCEPT ![i].adsCostPercent = ads, ![i].monthlyFixedCosts = fixed]

\* C15: contributionMarginPercent is the sum over the products of
\* (sellingPriceInr - landedCogs - totalMktFeesPerUnit - gstOnSale) *
\* estMonthlySalesUnits, over the total monthly revenue, times 100, or 0 when
\* the total monthly revenue is 0; ads cost and overhead are not part of it, so
\* changing only adsCostPercent or monthlyFixedCosts of a product leaves it
\* unchanged.
C15_ContributionMargin ==
    Rendered =>
        LET contribution ==
                Total([i \in DOMAIN cardInputs |->
                          Times(Minus(Minus(Minus(cardInputs[i].sellingPriceInr,
                                                  CardMetrics(i).landedCogs),
                                            CardMetrics(i).totalMktFeesPerUnit),
                                      CardMetrics(i).gstOnSale),
                                cardInputs[i].estMonthlySalesUnits)])
        IN  /\ cardKpis.totalMonthlyRevenue = SummedMonthlyRevenue
            /\ cardKpis.contributionMarginPercent =
                   MarginOf(contribution, SummedMonthlyRevenue)
            /\ \A i \in DOMAIN cardInputs :
                   \A change \in {<<Num(50), cardInputs[i].monthlyFixedCosts>>,
                                  <<cardInputs[i].adsCostPercent, Num(5000)>>} :
                       SummaryCards(Enrich(WithAdsAndFixedCosts(i, change[1], change[2])))
                               .contributionMarginPercent
                           = cardKpis.contributionMarginPercent

\* C15 witness: a catalog with monthly revenue rendered whose contribution margin
\* is not 0, and whose net profit does change with the ads percentage
C15_Witness ==
    /\ Rendered
    /\ Len(cardInputs) >= 2
    /\ Above(SummedMonthlyRevenue, 0)
    /\ cardKpis.contributionMarginPercent # Num(0)
    /\ totalInventoryNetProfit(Enrich(WithAdsAndFixedCosts(1, Num(50), Num(5000))))
           # cardKpis.totalInventoryNetProfit

(***************************************************************************)
(* Properties of the enriched product list (checked under Spec)            *)
(***************************************************************************)
\* the CalculatedMetrics part of an enriched product
MetricsOf(p) == [f \in MetricFields |-> p[f]]

\* the ProductInput part of an enriched product
InputOf(p) == [f \in NumericFields \cup {"id", "sku"} |-> p[f]]

\* C17: a product's metrics depend on its own input only: after an add, a
\* delete or an update of another id, every product whose input is still in
\* the catalog as it was has the metrics it had before.
C17_OtherProductsUntouched ==
    [][\A i \in DOMAIN productInputs : \A j \in DOMAIN productInputs' :
           productInputs'[j] = productInputs[i] =>
               MetricsOf(products'[j]) = MetricsOf(products[i])]_vars

\* C17 witness: a product has been added and the second product edited while
\* the first product stayed as it was
C17_Witness ==
    /\ ops = 2
    /\ Len(productInputs) = 3
    /\ productInputs[1] = INITIAL_PRODUCTS[1]
    /\ productInputs[2].id = INITIAL_PRODUCTS[2].id
    /\ productInputs[2] # INITIAL_PRODUCTS[2]
    /\ MetricsOf(products[1]) = calculateMetrics(INITIAL_PRODUCTS[1])

\* C18: computing metrics and KPIs never changes the catalog: rendering the
\* enriched products and the KPIs, calculateMetrics included, leaves the list
\* of inputs as it was in length, order and every field.
C18_CatalogNotMutated == [][Rendered' => cardInputs' = cardInputs]_vars

\* C18 witness: a catalog of three products has been rendered and still gives
\* the KPIs that were computed from it
C18_Witness ==
    /\ Rendered
    /\ Len(cardInputs) = 3
    /\ cardInputs[1] # cardInputs[2]
    /\ \A i \in DOMAIN cardInputs : DOMAIN cardInputs[i] = NumericFields \cup {"id", "sku"}
    /\ cardKpis = SummaryCards(Enrich(cardInputs))

(***************************************************************************)
(* More properties of the metrics engine (checked under SpecCalc)          *)
(***************************************************************************)
\* a finite number that is >= 0
NonNegative(x) == IsFinite(x) /\ x[1] >= 0

\* the input is within the declared ranges: amounts and unit counts >= 0,
\* fxRate > 0, percentages in 0..100
DeclaredRanges ==
    /\ \A f \in NumericFields : NonNegative(calcInput[f])
    /\ Above(calcInput.fxRate, 0)
    /\ AtMost(calcInput.returnsRatePercent, 100)
    /\ AtMost(calcInput.adsCostPercent, 100)

\* the monetary metrics that are not profits
CostFields ==
    {"unitPriceInr", "landedCogs", "referralFee", "fixedClosingFee", "gstOnMktFee",
     "gstOnSale", "returnsCost", "totalMktFeesPerUnit", "monthlyRevenue",
     "adsCostPerUnit", "overheadPerUnit", "totalCostPerUnit"}

\* C19: for every input within the declared ranges, every monetary metric other
\* than the profits (grossProfit, realNetProfit, totalMonthlyTakeHome) is >= 0.
C19_CostsNonNegative ==
    Calculated /\ DeclaredRanges => \A f \in CostFields : NonNegative(calcResult[f])

\* C19 witness: metrics computed for an input in range that returns goods and
\* makes a loss, so that a profit field is negative while the costs are not
C19_Witness ==
    /\ Calculated
    /\ DeclaredRanges
    /\ Above(calcResult.returnsCost, 0)
    /\ calcResult.realNetProfit[1] < 0
    /\ calcResult.totalMonthlyTakeHome[1] < 0

\* C20: after any sequence of add, update, delete and reset, the enriched list
\* has the length and order of productInputs, and its i-th element carries the
\* i-th input's fields as they are, together with calculateMetrics of that
\* input: no metric of an earlier input value survives.
C20_EnrichedListIsCurrent ==
    /\ Len(products) = Len(productInputs)
    /\ \A i \in DOMAIN productInputs :
          /\ DOMAIN products[i] = DOMAIN productInputs[i] \cup MetricFields
          /\ InputOf(products[i]) = productInputs[i]
          /\ MetricsOf(products[i]) = calculateMetrics(productInputs[i])

\* C20 witness: a product was added and its price then raised to 1200; the
\* third enriched product has the closing fee of the new price
C20_Witness ==
    /\ ops = 2
    /\ Len(products) = 3
    /\ productInputs[3].sellingPriceInr = Num(1200)
    /\ products[3].sellingPriceInr = Num(1200)
    /\ products[3].fixedClosingFee = Num(71)
    /\ products[1].fixedClosingFee = Num(26)

\* C21: each ratio is guarded by its own denominator only: overheadPerUnit is
\* monthlyFixedCosts / estMonthlySalesUnits when estMonthlySalesUnits > 0 and 0
\* otherwise, roi is realNetProfit / landedCogs * 100 when landedCogs > 0 and 0
\* otherwise, whatever sellingPriceInr is; and with sellingPriceInr > 0 the
\* price-based margins are the ratios also when estMonthlySalesUnits or
\* landedCogs is 0.
C21_GuardsIndependent ==
    Calculated =>
        LET units == calcInput.estMonthlySalesUnits
            price == calcInput.sellingPriceInr
            cogs == calcResult.landedCogs
        IN  /\ calcResult.overheadPerUnit =
                   IF Above(units, 0) THEN Over(calcInput.monthlyFixedCosts, units)
                   ELSE Num(0)
            /\ calcResult.roi =
                   IF Above(cogs, 0)
                   THEN Times(Over(calcResult.realNetProfit, cogs), Num(100))
                   ELSE Num(0)
            /\ Above(price, 0) =>
                   /\ calcResult.grossProfitMargin =
                          Times(Over(calcResult.grossProfit, price), Num(100))
                   /\ calcResult.realNetProfitMargin =
                          Times(Over(calcResult.realNetProfit, price), Num(100))

\* C21 witness: metrics computed for a free product that has sales, fixed costs
\* and a landed cost: overhead and roi are not 0 although the price is
C21_Witness ==
    /\ Calculated
    /\ calcInput.sellingPriceInr = Num(0)
    /\ calcResult.overheadPerUnit = Num(5)
    /\ Above(calcResult.landedCogs, 0)
    /\ calcResult.roi[1] < 0
    /\ calcResult.realNetProfitMargin = Num(0)


\* C22: after any sequence of handleAddProduct, handleUpdate, handleDelete and
\* handleReset no two entries of the catalog have the same id; every added
\* entry gets an id that no entry of the list already has.
C22_IdsUnique ==
    \A i, j \in DOMAIN productInputs :
        i # j => productInputs[i].id # productInputs[j].id


\* the fields of a catalog entry
InputFields == NumericFields \cup {"id", "sku"}

\* C23: handleUpdate(id, field, value) changes only the named field of the
\* entries whose id is id: the length and the order of the list, every other
\* entry and every other field of a targeted entry are unchanged, and the list
\* is unchanged when no entry has that id.  (For every call: the frame holds
\* of the step, or the step is not that call.)
C23_UpdateFrame ==
    [][\A id \in CallIds, field \in NumericFields \cup {"sku"} :
         \A value \in UpdateValues(field) :
            \/ /\ Len(productInputs') = Len(productInputs)
               /\ \A i \in DOMAIN productInputs :
                     /\ productInputs'[i].id = productInputs[i].id
                     /\ productInputs[i].id # id => productInputs'[i] = productInputs[i]
                     /\ productInputs[i].id = id =>
                           /\ productInputs'[i][field] = value
                           /\ \A f \in InputFields \ {field} :
                                 productInputs'[i][f] = productInputs[i][f]
               /\ id \notin Ids(productInputs) => productInputs' = productInputs
            \/ ~handleUpdate(id, field, value)]_vars

\* C23 witness: one update of the first default product has changed its returns
\* rate and nothing else in the catalog
C23_Witness ==
    /\ ops = 1
    /\ Len(productInputs) = 2
    /\ productInputs[1] # INITIAL_PRODUCTS[1]
    /\ productInputs[1] = [INITIAL_PRODUCTS[1] EXCEPT !.returnsRatePercent = Num(50)]
    /\ productInputs[2] = INITIAL_PRODUCTS[2]


\* C24: handleDelete(id) removes exactly the entries whose id is id: the other
\* entries remain, unchanged and in the same relative order; the list is
\* unchanged when no entry has that id, and deleting the id again changes
\* nothing more.
C24_DeleteFrame ==
    [][\A id \in CallIds :
         LET kept == {i \in DOMAIN productInputs : productInputs[i].id # id}
             rank(i) == Cardinality({j \in kept : j <= i})
         IN  \/ /\ Len(productInputs') = Cardinality(kept)
                /\ \A i \in kept : productInputs'[rank(i)] = productInputs[i]
                /\ id \notin Ids(productInputs) => productInputs' = productInputs
                /\ RemoveProduct(productInputs', id) = productInputs'
             \/ ~handleDelete(id)]_vars

\* C24 witness: the first default product has been deleted and the second is
\* what remains
C24_Witness ==
    /\ ops = 1
    /\ productInputs = <<INITIAL_PRODUCTS[2]>>
    /\ storage = JSONstringify(<<INITIAL_PRODUCTS[2]>>)


\* C25: handleAddProduct appends exactly one entry at the end of the list: the
\* length grows by 1, the existing entries keep their values and positions,
\* and the new entry has every numeric field of DEFAULT_PRODUCT_TEMPLATE and
\* the sku 'New Product N' with N the new length, also when an entry added
\* earlier has been edited since.
C25_AppendOne ==
    [][\A now \in 0..MaxClock, random \in RandomStrings :
         \/ /\ Len(productInputs') = Len(productInputs) + 1
            /\ \A i \in DOMAIN productInputs : productInputs'[i] = productInputs[i]
            /\ LET added == productInputs'[Len(productInputs')]
               IN  /\ \A f \in NumericFields : added[f] = DEFAULT_PRODUCT_TEMPLATE[f]
                   /\ added.sku = "New Product " \o ToString(Len(productInputs'))
                   /\ added.id = NewId(now, random)
         \/ ~handleAddProduct(now, random)]_vars

\* C25 witness: a product has been added to a catalog whose only entry is an
\* added product that was repriced; the new entry has the template's price
C25_Witness ==
    /\ ops = 1
    /\ Len(productInputs) = 2
    /\ productInputs[1].sku = "New Product 1"
    /\ productInputs[1].sellingPriceInr = Num(1200)
    /\ productInputs[2].sku = "New Product 2"
    /\ productInputs[2].sellingPriceInr = DEFAULT_PRODUCT_TEMPLATE.sellingPriceInr
    /\ DEFAULT_PRODUCT_TEMPLATE.sellingPriceInr # Num(1200)


\* C26: handleReset restores the catalog to the two default products with
\* their original field values whatever operations preceded it, so the state
\* after a reset is that of a first start without saved data, and a reset that
\* follows a reset changes nothing.
C26_ResetRestoresDefaults ==
    [][HandleReset =>
          /\ productInputs' = INITIAL_PRODUCTS
          /\ productInputs' = InitialCatalog(NoItem)
          /\ Len(productInputs') = 2
          /\ productInputs'[1].id = "1"
          /\ productInputs'[1].sku = "Penguin 20CM"
          /\ productInputs'[1].sellingPriceInr = Num(659)
          /\ productInputs'[2].id = "2"
          /\ productInputs'[2].sku = "Elephant 20CM"
          /\ productInputs'[2].sellingPriceInr = Num(299)
          /\ products' = Enrich(INITIAL_PRODUCTS)
          /\ storage' = JSONstringify(INITIAL_PRODUCTS)
          /\ (productInputs = INITIAL_PRODUCTS =>
                 <<productInputs, products, kpis, storage>>' =
                     <<productInputs, products, kpis, storage>>)]_vars

\* C26 witness: the catalog shows the two defaults again after two operations
\* of which one added a product
C26_Witness ==
    /\ ops = 2
    /\ clock = 1
    /\ productInputs = INITIAL_PRODUCTS
    /\ storage = JSONstringify(INITIAL_PRODUCTS)


C28_StartsWithProductList ==
    ops = 0 =>
        /\ HasMap(productInputs)
        /\ Mounted
        /\ productInputs \in {CopyOfInitialProducts} \cup
                             {JSONparse(item) : item \in SavedItems \ {NoItem}}
        /\ products = Enrich(productInputs)


====
